---- MODULE Spec2Model ----
(***************************************************************************)
(* A model of the ml_api prediction gateway (src/api/ml_api).              *)
(*                                                                         *)
(* Every HTTP request r is handled by one Flask worker thread; a request   *)
(* to the regression endpoint may start one more thread, the shadow        *)
(* thread, which runs make_save_predictions for the gradient boosting      *)
(* model.  The two prediction tables and the Prometheus metrics are the    *)
(* state the threads share.  The two model packages (regression_model,     *)
(* gradient_boosting_model) are not part of this repository: they are      *)
(* modelled by their predict contract (LiveModel, ShadowModel).            *)
(***************************************************************************)
EXTENDS Integers, Sequences, FiniteSets, Bags, TLC

\* The number of HTTP requests one behaviour handles (they run concurrently).
NumReq == 2

\* The longest batch a direct call of make_save_predictions is given.
MaxRows == 2

Req == 1..NumReq

VARIABLES
    environ,            \* os.environ entry SHADOW_MODE_ACTIVE (config.py:38)
    persistence_user_id, \* [r]: the user_id PredictionPersistence(...) is passed
    pc,                 \* pc[r]: where the worker thread of request r stands
    endpoint,           \* endpoint[r]: the operation request r is routed to
    json_data,          \* json_data[r]: request.get_json(), the batch as submitted
    result,             \* result[r]: the PredictionResult the view function holds
    response,           \* response[r]: the flask Response of request r
    failure,            \* failure[r]: the exception that ended the view function
    shadow,             \* shadow[r]: where the shadow thread of request r stands
    shadow_result,      \* shadow_result[r]: the shadow thread's PredictionResult
    model_calls,        \* model_calls[r]: the models invoked on behalf of r
    model_input,        \* model_input[r][m]: the input_data model m was called with
    session_adds,       \* session_adds[r][m]: db_session.add calls of r for model m
    session_commits,    \* session_commits[r][m]: db_session.commit calls
    lasso_table,        \* rows of regression_model_predictions
    gb_table,           \* rows of gradient_boosting_model_predictions
    PREDICTION_TRACKER, \* histogram: observations per model_name label
    PREDICTION_GAUGE,   \* gauge: last value set per model_name label
    observed,           \* observed[r]: histogram observations made by request r
    gauge_sets,         \* gauge_sets[r]: gauge updates made by request r
    loop_index,         \* loop_index[r]: predictions the monitoring loop has passed
    REQUEST_COUNT,      \* counter per <<method, endpoint, http_status>>
    REQUEST_LATENCY     \* histogram: observations per endpoint

vars == <<environ, persistence_user_id, pc, endpoint, json_data, result,
          response, failure, shadow,
          shadow_result, model_calls, model_input, session_adds, session_commits,
          lasso_table, gb_table, PREDICTION_TRACKER, PREDICTION_GAUGE,
          observed, gauge_sets, loop_index, REQUEST_COUNT, REQUEST_LATENCY>>

-----------------------------------------------------------------------------
(* Configuration: config.py                                                *)

APP_NAME == "ml_api"

\* The values the environment variable SHADOW_MODE_ACTIVE takes in the model:
\* not set at all, the empty string, and a non-empty string.
Unset == "<unset>"
EnvValues == {Unset, "", "False"}

\* os.getenv('SHADOW_MODE_ACTIVE', True): the string when set, else True.
\* The result is kept as [is_str, str, bool], a Python value str | bool.
SHADOW_MODE_ACTIVE(env) ==
    IF env = Unset
        THEN [is_str |-> FALSE, str |-> "", bool |-> TRUE]
        ELSE [is_str |-> TRUE, str |-> env, bool |-> FALSE]

\* PyTruth reading the string as a boolean literal: "False" and "0" false.
PyTruthParsed(v) ==
    IF v.is_str THEN v.str \notin {"", "False", "false", "0"} ELSE v.bool

\* Python truth value of a str | bool: a string is true iff it is non-empty.
PyTruth(v) == IF v.is_str THEN v.str # "" ELSE v.bool

\* current_app.config.get("SHADOW_MODE_ACTIVE") as the if-condition of predict
ShadowModeOn == PyTruth(SHADOW_MODE_ACTIVE(environ))

-----------------------------------------------------------------------------
(* Batches.  A record of a batch is a function from field names to cells;  *)
(* a cell is a number ("n1", "n2"), a string that is no number ("abc") or  *)
(* a null ("NaN").                                                         *)

NumberCells == {"n1", "n2"}

Row(field, cell) == field :> cell

Batches ==
    { << >>,
      << Row("FirstFlrSF", "n1") >>,
      << Row("FirstFlrSF", "n1"), Row("FirstFlrSF", "n2") >>,
      << Row("FirstFlrSF", "n2"), Row("FirstFlrSF", "NaN") >>,
      << Row("FirstFlrSF", "abc") >>,
      << Row("1stFlrSF", "abc") >>,
      << Row("FirstFlrSF", "n1") @@ Row("LotArea", "abc") >> }

ModelType == {"LASSO", "GRADIENT_BOOSTING"}

SECONDARY_VARIABLES_TO_RENAME ==
    ("FirstFlrSF" :> "1stFlrSF") @@ ("SecondFlrSF" :> "2ndFlrSF")
        @@ ("ThreeSsnPortch" :> "3SsnPorch")

\* The order pandas gives the columns of a frame built from these records.
ColumnOrder == << "FirstFlrSF", "SecondFlrSF", "ThreeSsnPortch",
                  "1stFlrSF", "2ndFlrSF", "3SsnPorch", "LotArea" >>

Cell(rec, field) == IF field \in DOMAIN rec THEN rec[field] ELSE "NaN"

\* RenameColumn with a table that also maps the target name back.
RenameColumnSwapped(c) ==
    CASE c = "FirstFlrSF" -> "1stFlrSF"
      [] c = "1stFlrSF"   -> "FirstFlrSF"
      [] OTHER            -> c

\* DataFrame.rename(columns=...): the new name of a column.
RenameColumn(c) ==
    IF c \in DOMAIN SECONDARY_VARIABLES_TO_RENAME
        THEN SECONDARY_VARIABLES_TO_RENAME[c] ELSE c

\* pd.DataFrame(input_data).rename(columns=...).to_dict(orient="records"):
\* the frame has the union of the records' keys as columns (a missing cell
\* is NaN); to_dict zips the renamed columns with each row, so of two
\* columns that end with the same name the later one wins.
RenameRecords(input_data) ==
    LET cols == UNION { DOMAIN input_data[i] : i \in DOMAIN input_data }
        named == { RenameColumn(c) : c \in cols }
        Pos(c) == CHOOSE k \in DOMAIN ColumnOrder : ColumnOrder[k] = c
        Last(n) == CHOOSE c \in cols :
                      /\ RenameColumn(c) = n
                      /\ \A d \in cols : RenameColumn(d) = n => Pos(d) <= Pos(c)
    IN  [ i \in DOMAIN input_data |->
            [ n \in named |-> Cell(input_data[i], Last(n)) ] ]

-----------------------------------------------------------------------------
(* Python values of the prediction result.                                 *)

\* errors: a missing key, None, or a mapping index -> field -> messages,
\* kept as the set of its <<index, field, message>> entries.
MissingKey == [tag |-> "missing", messages |-> {}]
NoneErrors == [tag |-> "None", messages |-> {}]
ErrorDict(msgs) == [tag |-> "dict", messages |-> msgs]

\* `if errors:` a mapping is true iff it is non-empty; None is false.
ErrorsTruth(e) == e.tag = "dict" /\ e.messages # {}

\* predictions: None or a list of numbers
NonePredictions == [tag |-> "None", items |-> << >>]
PredictionList(s) == [tag |-> "list", items |-> s]

NoResult == [set |-> FALSE, errors |-> NoneErrors,
             predictions |-> NonePredictions, model_version |-> ""]

live_version == "live-1"
shadow_version == "shadow-1"

\* The field a model's schema reads, and the price it predicts for a cell.
SchemaField(db_model) == IF db_model = "LASSO" THEN "1stFlrSF" ELSE "FirstFlrSF"

Price(db_model, cell) ==
    (IF db_model = "LASSO" THEN 10 ELSE 20) + (IF cell = "n1" THEN 1 ELSE 2)

\* The fields a model's schema validates: the two models have schemas of
\* their own, the gradient boosting model also validates LotArea.
SchemaFields(db_model) ==
    IF db_model = "LASSO" THEN {"1stFlrSF"} ELSE {"FirstFlrSF", "LotArea"}

\* The predict contract of a model package: rows whose field is null or
\* missing are dropped; a validated field of a row that is no number is a
\* validation error under the key str(index) and then no predictions are
\* returned; otherwise one prediction per remaining row, in order.
ModelOutput(db_model, input_data) ==
    LET f == SchemaField(db_model)
        invalid == { ig \in (DOMAIN input_data) \X SchemaFields(db_model) :
                       Cell(input_data[ig[1]], ig[2])
                           \notin NumberCells \cup {"NaN"} }
        bad == { ig[1] : ig \in invalid }
        Keep(rec) == Cell(rec, f) \in NumberCells
        kept == SelectSeq(input_data, Keep)
        msgs == { << ToString(ig[1] - 1), ig[2], "Not a valid number." >> :
                     ig \in invalid }
    IN  [ errors |-> IF bad = {} THEN NoneErrors ELSE ErrorDict(msgs),
          predictions |->
              IF bad = {}
                  THEN PredictionList(
                          [ k \in DOMAIN kept |-> Price(db_model, Cell(kept[k], f)) ])
                  ELSE NonePredictions,
          version |-> IF db_model = "LASSO" THEN live_version ELSE shadow_version ]

\* regression_model.predict.make_prediction
LiveModel(input_data) == ModelOutput("LASSO", input_data)

\* gradient_boosting_model.predict.make_prediction
ShadowModel(input_data) == ModelOutput("GRADIENT_BOOSTING", input_data)

MODEL_PREDICTION_MAP(db_model, input_data) ==
    IF db_model = "GRADIENT_BOOSTING"
        THEN ShadowModel(input_data) ELSE LiveModel(input_data)

-----------------------------------------------------------------------------
(* PredictionPersistence: data_access.py                                   *)

\* __init__: self.user_id is assigned only when no user_id is passed.  The
\* views construct PredictionPersistence without a user_id (controller.py
\* lines 90 and 191).
NoUser == ""
PersistenceUserId(user_id) ==
    IF user_id = NoUser THEN [has_attr |-> TRUE, value |-> "007"]
                        ELSE [has_attr |-> FALSE, value |-> ""]

\* ModelInput without `if db_model == ModelType.LASSO`: always renamed.
ModelInputAlwaysRenamed(db_model, input_data) == RenameRecords(input_data)

\* make_save_predictions, lines 78-87: the input_data the model is called
\* with, which is also the input_data later handed to save_predictions.
ModelInput(db_model, input_data) ==
    IF db_model = "LASSO" THEN RenameRecords(input_data) ELSE input_data

\* MakePredictionResult keeping the predictions only when they are true
\* (`if predictions`), so that an empty list becomes None.
MakePredictionResultFalsyPredictions(out) ==
    [ set |-> TRUE,
      errors |-> IF out.errors.tag = "missing" THEN NoneErrors ELSE out.errors,
      predictions |-> IF ~ErrorsTruth(out.errors) /\ out.predictions.items # << >>
                          THEN out.predictions ELSE NonePredictions,
      model_version |-> out.version ]

\* make_save_predictions, lines 94-106: the PredictionResult built from the
\* model's answer.  A missing "errors" key is caught and leaves errors None;
\* the predictions are kept when `not errors`, else they are None.
MakePredictionResult(out) ==
    [ set |-> TRUE,
      errors |-> IF out.errors.tag = "missing" THEN NoneErrors ELSE out.errors,
      predictions |-> IF ~ErrorsTruth(out.errors) THEN out.predictions
                                                  ELSE NonePredictions,
      model_version |-> out.version ]

\* The argument of a model call: none yet, or the input_data of line 92.
NotCalled == [called |-> FALSE, input_data |-> << >>]
CalledWith(input_data) == [called |-> TRUE, input_data |-> input_data]

\* json.dumps(x): the JSON text of x.
json_dumps(x) == [json_text_of |-> x]

\* PredictionRow naming the first request on every row.
PredictionRowMisattributed(r, user, inputs, prediction_result) ==
    [ req |-> 1,
      user_id |-> user.value,
      model_version |-> prediction_result.model_version,
      inputs |-> json_dumps(inputs),
      outputs |-> json_dumps(prediction_result.predictions) ]

\* save_predictions, lines 135-148: the row it builds.  req is not a column:
\* it names the request the row was written for.
PredictionRow(r, user, inputs, prediction_result) ==
    [ req |-> r,
      user_id |-> user.value,
      model_version |-> prediction_result.model_version,
      inputs |-> json_dumps(inputs),
      outputs |-> json_dumps(prediction_result.predictions) ]

-----------------------------------------------------------------------------
(* The two tables.  A table is the bag of the rows committed to it; the    *)
(* surrogate id and datetime_captured are assigned by the database and     *)
(* are left out of a row.                                                  *)

RECURSIVE CopiesOf(_, _)
CopiesOf(rows, table) ==
    IF rows = {} THEN 0
    ELSE LET row == CHOOSE x \in rows : TRUE
         IN  CopiesIn(row, table) + CopiesOf(rows \ {row}, table)

\* The rows of a table written for request r, and how many they are.
RowsFor(table, r) == { row \in BagToSet(table) : row.req = r }
CountFor(table, r) == CopiesOf(RowsFor(table, r), table)
Count(table) == CopiesOf(BagToSet(table), table)

\* TableOf with the branches of `if db_model == db_model.LASSO` swapped.
TableOfSwapped(db_model) == IF db_model = "LASSO" THEN "gradient" ELSE "lasso"

\* TableOf without the else branch: every row is a LassoModelPredictions.
TableOfLassoOnly(db_model) == "lasso"

\* save_predictions, lines 135-148: the table a db_model's row goes to.
TableOf(db_model) == IF db_model = "LASSO" THEN "lasso" ELSE "gradient"

\* save_predictions adding and committing one row per prediction.
save_predictions_per_prediction(r, db_model, inputs, prediction_result, committed) ==
    LET n == Len(prediction_result.predictions.items)
        row == PredictionRow(r, PersistenceUserId(persistence_user_id[r]), inputs,
                             prediction_result)
        written == IF committed THEN [x \in {row} |-> n] ELSE EmptyBag
    IN  /\ session_adds' =
              [session_adds EXCEPT ![r][db_model] = @ + n]
        /\ session_commits' =
              [session_commits EXCEPT ![r][db_model] = @ + n]
        /\ lasso_table' = IF db_model = "LASSO" /\ n > 0
                              THEN lasso_table (+) written ELSE lasso_table
        /\ gb_table' = IF db_model # "LASSO" /\ n > 0
                           THEN gb_table (+) written ELSE gb_table

\* save_predictions replacing the rows of the table by the new row.
save_predictions_overwrite(r, db_model, inputs, prediction_result, committed) ==
    LET row == PredictionRow(r, PersistenceUserId(persistence_user_id[r]), inputs,
                             prediction_result)
    IN  /\ session_adds' =
              [session_adds EXCEPT ![r][db_model] = @ + 1]
        /\ session_commits' =
              [session_commits EXCEPT ![r][db_model] = @ + 1]
        /\ lasso_table' = IF TableOf(db_model) = "lasso" /\ committed
                              THEN SetToBag({row}) ELSE lasso_table
        /\ gb_table' = IF TableOf(db_model) = "gradient" /\ committed
                           THEN SetToBag({row}) ELSE gb_table

\* save_predictions whose row stays in the table when the commit raises.
save_predictions_keeps_failed_row(r, db_model, inputs, prediction_result, committed) ==
    LET row == PredictionRow(r, PersistenceUserId(persistence_user_id[r]), inputs,
                             prediction_result)
    IN  /\ session_adds' =
              [session_adds EXCEPT ![r][db_model] = @ + 1]
        /\ session_commits' =
              [session_commits EXCEPT ![r][db_model] = @ + 1]
        /\ lasso_table' = IF TableOf(db_model) = "lasso"
                              THEN lasso_table (+) SetToBag({row}) ELSE lasso_table
        /\ gb_table' = IF TableOf(db_model) = "gradient"
                           THEN gb_table (+) SetToBag({row}) ELSE gb_table

\* save_predictions, lines 135-153, called by thread of request r with a
\* PredictionResult: one row is built, added to the session and committed.
\* committed tells whether db_session.commit() succeeds or raises.  Building
\* the row reads self.user_id; without the attribute nothing is added.
save_predictions(r, db_model, inputs, prediction_result, committed) ==
    LET user == PersistenceUserId(persistence_user_id[r])
        row == PredictionRow(r, user, inputs, prediction_result)
        written == IF committed THEN SetToBag({row}) ELSE EmptyBag
    IN  IF ~user.has_attr
            THEN UNCHANGED <<session_adds, session_commits, lasso_table, gb_table>>
            ELSE /\ session_adds' =
                      [session_adds EXCEPT ![r][db_model] = @ + 1]
                 /\ session_commits' =
                      [session_commits EXCEPT ![r][db_model] = @ + 1]
                 /\ lasso_table' = IF TableOf(db_model) = "lasso"
                                       THEN lasso_table (+) written ELSE lasso_table
                 /\ gb_table' = IF TableOf(db_model) = "gradient"
                                    THEN gb_table (+) written ELSE gb_table

\* The exception save_predictions ends with: reading self.user_id raises
\* AttributeError when __init__ did not assign it (line 138 or 145), else
\* the commit of line 152 returns or raises.
SaveException(r, committed) ==
    IF ~PersistenceUserId(persistence_user_id[r]).has_attr THEN "AttributeError"
    ELSE IF committed THEN "none" ELSE "PersistenceError"

-----------------------------------------------------------------------------
(* HTTP: the routes, the responses and the request metrics.                *)

Endpoints == {"regression", "gradient", "health"}

PathOf(ep) ==
    CASE ep = "regression" -> "/v1/predictions/regression"
      [] ep = "gradient"   -> "/v1/predictions/gradient"
      [] OTHER             -> "/"

MethodOf(ep) == IF ep = "health" THEN "GET" ELSE "POST"

Statuses == {200, 400, 500}

CountLabels ==
    { << MethodOf(ep), PathOf(ep), st >> : ep \in Endpoints, st \in Statuses }

NoResponse == [status |-> 0, kind |-> "none", errors |-> NoneErrors,
               predictions |-> NonePredictions, version |-> ""]

\* ErrorResponse without status=400: Response(json.dumps(errors)).
ErrorResponseStatus200(errors) ==
    [status |-> 200, kind |-> "errors", errors |-> errors,
     predictions |-> NonePredictions, version |-> ""]

\* Response(json.dumps(errors), status=400)
ErrorResponse(errors) ==
    [status |-> 400, kind |-> "errors", errors |-> errors,
     predictions |-> NonePredictions, version |-> ""]

\* PredictionResponse with the predictions in reverse order.
PredictionResponseReversed(predictions, version, errors) ==
    [status |-> 200, kind |-> "prediction", errors |-> errors,
     predictions |->
         [predictions EXCEPT !.items =
             [k \in 1..Len(@) |-> @[Len(@) + 1 - k]]],
     version |-> version]

\* jsonify({"predictions": ..., "version": ..., "errors": ...}), status 200
PredictionResponse(predictions, version, errors) ==
    [status |-> 200, kind |-> "prediction", errors |-> errors,
     predictions |-> predictions, version |-> version]

\* jsonify({"status": "ok"})
HealthResponse ==
    [status |-> 200, kind |-> "health", errors |-> NoneErrors,
     predictions |-> NonePredictions, version |-> ""]

\* What Flask answers when the view function raises.
ServerErrorResponse ==
    [status |-> 500, kind |-> "server_error", errors |-> NoneErrors,
     predictions |-> NonePredictions, version |-> ""]

-----------------------------------------------------------------------------
Init ==
    /\ environ \in EnvValues
    /\ persistence_user_id = [r \in Req |-> NoUser]
    /\ pc = [r \in Req |-> "idle"]
    /\ endpoint = [r \in Req |-> "none"]
    /\ json_data = [r \in Req |-> << >>]
    /\ result = [r \in Req |-> NoResult]
    /\ response = [r \in Req |-> NoResponse]
    /\ failure = [r \in Req |-> "none"]
    /\ shadow = [r \in Req |-> "none"]
    /\ shadow_result = [r \in Req |-> NoResult]
    /\ model_calls = [r \in Req |-> {}]
    /\ model_input = [r \in Req |-> [m \in ModelType |-> NotCalled]]
    /\ session_adds = [r \in Req |-> [m \in ModelType |-> 0]]
    /\ session_commits = [r \in Req |-> [m \in ModelType |-> 0]]
    /\ lasso_table = EmptyBag
    /\ gb_table = EmptyBag
    /\ PREDICTION_TRACKER = [m \in ModelType |-> 0]
    /\ PREDICTION_GAUGE = [m \in ModelType |-> 0]
    /\ observed = [r \in Req |-> 0]
    /\ gauge_sets = [r \in Req |-> 0]
    /\ loop_index = [r \in Req |-> 0]
    /\ REQUEST_COUNT = [l \in CountLabels |-> 0]
    /\ REQUEST_LATENCY = [p \in {PathOf(ep) : ep \in Endpoints} |-> 0]

db == <<session_adds, session_commits, lasso_table, gb_table>>
prediction_metrics ==
    <<PREDICTION_TRACKER, PREDICTION_GAUGE, observed, gauge_sets, loop_index>>
request_metrics == <<REQUEST_COUNT, REQUEST_LATENCY>>
shadow_thread == <<shadow, shadow_result>>

\* The view function of request r raises: Flask answers 500.
Raise(r, exception) ==
    /\ failure' = [failure EXCEPT ![r] = exception]
    /\ response' = [response EXCEPT ![r] = ServerErrorResponse]
    /\ pc' = [pc EXCEPT ![r] = "after_request"]

\* A request arrives and is routed; before_request runs start_timer.
\* Requests are numbered in the order they arrive.
start_timer(r) ==
    /\ pc[r] = "idle"
    /\ \A q \in Req : q < r => pc[q] # "idle"
    /\ \E ep \in Endpoints :
        /\ endpoint' = [endpoint EXCEPT ![r] = ep]
        /\ \E batch \in (IF ep = "health" THEN {<< >>} ELSE Batches) :
              json_data' = [json_data EXCEPT ![r] = batch]
    /\ pc' = [pc EXCEPT ![r] = "view"]
    /\ UNCHANGED <<environ, persistence_user_id,
                   result, response, failure, shadow_thread,
                   model_calls, model_input, db, prediction_metrics, request_metrics>>

-----------------------------------------------------------------------------
(* predict(): POST /v1/predictions/regression, controller.py lines 81-168  *)

\* predict_make_predictions with the shadow thread started before the live
\* model is called.
predict_make_predictions_thread_first(r) ==
    /\ pc[r] = "view"
    /\ endpoint[r] = "regression"
    /\ shadow' = [shadow EXCEPT ![r] = "started"]
    /\ model_calls' = [model_calls EXCEPT ![r] = @ \cup {"LASSO"}]
    /\ model_input' = [model_input EXCEPT ![r]["LASSO"] =
                          CalledWith(ModelInput("LASSO", json_data[r]))]
    /\ LET prediction_result ==
              MakePredictionResult(MODEL_PREDICTION_MAP("LASSO",
                                       ModelInput("LASSO", json_data[r])))
       IN  /\ result' = [result EXCEPT ![r] = prediction_result]
           /\ pc' = [pc EXCEPT ![r] =
                       IF ErrorsTruth(prediction_result.errors)
                           THEN "shadow_mode" ELSE "save"]
    /\ UNCHANGED <<environ, persistence_user_id, endpoint, json_data,
                   response, failure, shadow_result, db, prediction_metrics,
                   request_metrics>>

\* Lines 89-93, make_save_predictions(db_model=LASSO) up to its line 111:
\* the columns are renamed, the live model is called (it answers or
\* raises) and the PredictionResult is built.  With errors the method
\* returns at once; without, it goes on to save_predictions.
predict_make_predictions(r) ==
    /\ pc[r] = "view"
    /\ endpoint[r] = "regression"
    /\ model_calls' = [model_calls EXCEPT ![r] = @ \cup {"LASSO"}]
    /\ model_input' = [model_input EXCEPT ![r]["LASSO"] =
                          CalledWith(ModelInput("LASSO", json_data[r]))]
    /\ \/ /\ Raise(r, "ModelInvocationError")
          /\ UNCHANGED result
       \/ LET out == MODEL_PREDICTION_MAP("LASSO",
                                          ModelInput("LASSO", json_data[r]))
              prediction_result == MakePredictionResult(out)
          IN  /\ result' = [result EXCEPT ![r] = prediction_result]
              /\ pc' = [pc EXCEPT ![r] =
                          IF ErrorsTruth(prediction_result.errors)
                              THEN "shadow_mode" ELSE "save"]
              /\ UNCHANGED <<response, failure>>
    /\ UNCHANGED <<environ, persistence_user_id,
                   endpoint, json_data, shadow_thread, db,
                   prediction_metrics, request_metrics>>

\* make_save_predictions lines 113-117: save_predictions with the (renamed)
\* input_data; a commit that raises ends the view function.
predict_save_predictions(r) ==
    /\ pc[r] = "save"
    /\ endpoint[r] = "regression"
    /\ \E committed \in BOOLEAN :
        /\ save_predictions(r, "LASSO", ModelInput("LASSO", json_data[r]),
                            result[r], committed)
        /\ IF SaveException(r, committed) = "none"
              THEN /\ pc' = [pc EXCEPT ![r] = "shadow_mode"]
                   /\ UNCHANGED <<response, failure>>
              ELSE Raise(r, SaveException(r, committed))
    /\ UNCHANGED <<environ, persistence_user_id,
                   endpoint, json_data, result, shadow_thread,
                   model_calls, model_input, prediction_metrics, request_metrics>>

\* predict_shadow_mode that never starts the thread (thread.start() left out).
predict_shadow_mode_not_started(r) ==
    /\ pc[r] = "shadow_mode"
    /\ IF ErrorsTruth(result[r].errors)
          THEN /\ response' = [response EXCEPT ![r] = ErrorResponse(result[r].errors)]
               /\ pc' = [pc EXCEPT ![r] = "after_request"]
          ELSE /\ pc' = [pc EXCEPT ![r] = "monitor"]
               /\ UNCHANGED response
    /\ UNCHANGED <<environ, persistence_user_id,
                   endpoint, json_data, result, failure,
                   shadow_thread, model_calls, model_input, db, prediction_metrics,
                   request_metrics>>

\* predict_shadow_mode without the check of result.errors (lines 129-131).
predict_shadow_mode_no_error_check(r) ==
    /\ pc[r] = "shadow_mode"
    /\ shadow' = [shadow EXCEPT ![r] = IF ShadowModeOn THEN "started" ELSE @]
    /\ pc' = [pc EXCEPT ![r] = "monitor"]
    /\ UNCHANGED <<environ, persistence_user_id,
                   endpoint, json_data, result, response, failure,
                   shadow_result, model_calls, model_input, db, prediction_metrics,
                   request_metrics>>

\* predict_shadow_mode without the check of SHADOW_MODE_ACTIVE (line 108).
predict_shadow_mode_always(r) ==
    /\ pc[r] = "shadow_mode"
    /\ shadow' = [shadow EXCEPT ![r] = "started"]
    /\ IF ErrorsTruth(result[r].errors)
          THEN /\ response' = [response EXCEPT ![r] = ErrorResponse(result[r].errors)]
               /\ pc' = [pc EXCEPT ![r] = "after_request"]
          ELSE /\ pc' = [pc EXCEPT ![r] = "monitor"]
               /\ UNCHANGED response
    /\ UNCHANGED <<environ, persistence_user_id,
                   endpoint, json_data, result, failure,
                   shadow_result, model_calls, model_input, db, prediction_metrics,
                   request_metrics>>

\* Lines 108-131: with shadow mode on the shadow thread is started on
\* json_data; then result.errors is looked at: with errors the view
\* function returns the 400 response, else it enters the monitoring loop.
predict_shadow_mode(r) ==
    /\ pc[r] = "shadow_mode"
    /\ shadow' = [shadow EXCEPT ![r] = IF ShadowModeOn THEN "started" ELSE @]
    /\ IF ErrorsTruth(result[r].errors)
          THEN /\ response' = [response EXCEPT ![r] = ErrorResponse(result[r].errors)]
               /\ pc' = [pc EXCEPT ![r] = "after_request"]
          ELSE /\ pc' = [pc EXCEPT ![r] = "monitor"]
               /\ UNCHANGED response
    /\ UNCHANGED <<environ, persistence_user_id,
                   endpoint, json_data, result, failure,
                   shadow_result, model_calls, model_input, db, prediction_metrics,
                   request_metrics>>

\* predict_monitor setting the gauge to the first prediction in every pass.
predict_monitor_sets_first(r) ==
    /\ pc[r] = "monitor"
    /\ loop_index[r] < Len(result[r].predictions.items)
    /\ PREDICTION_TRACKER' = [PREDICTION_TRACKER EXCEPT !["LASSO"] = @ + 1]
    /\ observed' = [observed EXCEPT ![r] = @ + 1]
    /\ PREDICTION_GAUGE' =
          [PREDICTION_GAUGE EXCEPT !["LASSO"] = result[r].predictions.items[1]]
    /\ gauge_sets' = [gauge_sets EXCEPT ![r] = @ + 1]
    /\ loop_index' = [loop_index EXCEPT ![r] = @ + 1]
    /\ UNCHANGED <<environ, persistence_user_id, pc, response, failure,
                   endpoint, json_data, result, shadow_thread, model_calls,
                   model_input, db, request_metrics>>

\* Lines 136-155, one pass of the loop: observe on the histogram, then set
\* on the gauge, both with the LASSO labels.  Either call may raise.
predict_monitor(r) ==
    /\ pc[r] = "monitor"
    /\ loop_index[r] < Len(result[r].predictions.items)
    /\ LET _prediction == result[r].predictions.items[loop_index[r] + 1]
       IN  \E sink \in {"ok", "observe_raises", "set_raises"} :
            /\ IF sink = "observe_raises"
                  THEN UNCHANGED <<PREDICTION_TRACKER, observed>>
                  ELSE /\ PREDICTION_TRACKER' =
                              [PREDICTION_TRACKER EXCEPT !["LASSO"] = @ + 1]
                       /\ observed' = [observed EXCEPT ![r] = @ + 1]
            /\ IF sink = "ok"
                  THEN /\ PREDICTION_GAUGE' =
                              [PREDICTION_GAUGE EXCEPT !["LASSO"] = _prediction]
                       /\ gauge_sets' = [gauge_sets EXCEPT ![r] = @ + 1]
                       /\ loop_index' = [loop_index EXCEPT ![r] = @ + 1]
                       /\ UNCHANGED <<pc, response, failure>>
                  ELSE /\ Raise(r, "MetricsSinkError")
                       /\ UNCHANGED <<PREDICTION_GAUGE, gauge_sets, loop_index>>
    /\ UNCHANGED <<environ, persistence_user_id,
                   endpoint, json_data, result, shadow_thread,
                   model_calls, model_input, db, request_metrics>>

\* predict_respond returning from inside the loop, after its first pass.
predict_respond_in_loop(r) ==
    /\ pc[r] = "monitor"
    /\ loop_index[r] >= 1 \/ Len(result[r].predictions.items) = 0
    /\ response' = [response EXCEPT ![r] =
           PredictionResponse(result[r].predictions, result[r].model_version,
                              result[r].errors)]
    /\ pc' = [pc EXCEPT ![r] = "after_request"]
    /\ UNCHANGED <<environ, persistence_user_id,
                   endpoint, json_data, result, failure,
                   shadow_thread, model_calls, model_input, db, prediction_metrics,
                   request_metrics>>

\* predict_respond with thread.join() before the response.
predict_respond_after_join(r) ==
    /\ pc[r] = "monitor"
    /\ loop_index[r] = Len(result[r].predictions.items)
    /\ shadow[r] \notin {"started", "save"}
    /\ response' = [response EXCEPT ![r] =
           PredictionResponse(result[r].predictions, result[r].model_version,
                              result[r].errors)]
    /\ pc' = [pc EXCEPT ![r] = "after_request"]
    /\ UNCHANGED <<environ, persistence_user_id,
                   endpoint, json_data, result, failure,
                   shadow_thread, model_calls, model_input, db, prediction_metrics,
                   request_metrics>>

\* Lines 156-168: the loop is over; the view function returns the jsonify
\* response.  Nothing here looks at the shadow thread.
predict_respond(r) ==
    /\ pc[r] = "monitor"
    /\ loop_index[r] = Len(result[r].predictions.items)
    /\ response' = [response EXCEPT ![r] =
           PredictionResponse(result[r].predictions, result[r].model_version,
                              result[r].errors)]
    /\ pc' = [pc EXCEPT ![r] = "after_request"]
    /\ UNCHANGED <<environ, persistence_user_id,
                   endpoint, json_data, result, failure,
                   shadow_thread, model_calls, model_input, db, prediction_metrics,
                   request_metrics>>

-----------------------------------------------------------------------------
(* The shadow thread: make_save_predictions(db_model=GRADIENT_BOOSTING,    *)
(* input_data=json_data) as the target of threading.Thread.                *)

\* shadow_make_predictions without `if prediction_result.errors: return`.
shadow_make_predictions_saves_errors(r) ==
    /\ shadow[r] = "started"
    /\ model_calls' = [model_calls EXCEPT ![r] = @ \cup {"GRADIENT_BOOSTING"}]
    /\ model_input' = [model_input EXCEPT ![r]["GRADIENT_BOOSTING"] =
              CalledWith(ModelInput("GRADIENT_BOOSTING", json_data[r]))]
    /\ \/ /\ shadow' = [shadow EXCEPT ![r] = "model_raised"]
          /\ UNCHANGED shadow_result
       \/ /\ shadow_result' = [shadow_result EXCEPT ![r] =
                 MakePredictionResult(MODEL_PREDICTION_MAP("GRADIENT_BOOSTING",
                     ModelInput("GRADIENT_BOOSTING", json_data[r])))]
          /\ shadow' = [shadow EXCEPT ![r] = "save"]
    /\ UNCHANGED <<environ, persistence_user_id,
                   pc, endpoint, json_data, result, response,
                   failure, db, prediction_metrics, request_metrics>>

\* data_access.py lines 78-111 in the shadow thread: no renaming, the shadow
\* model is called on json_data; it answers or raises.
shadow_make_predictions(r) ==
    /\ shadow[r] = "started"
    /\ model_calls' = [model_calls EXCEPT ![r] = @ \cup {"GRADIENT_BOOSTING"}]
    /\ model_input' = [model_input EXCEPT ![r]["GRADIENT_BOOSTING"] =
              CalledWith(ModelInput("GRADIENT_BOOSTING", json_data[r]))]
    /\ \/ /\ shadow' = [shadow EXCEPT ![r] = "model_raised"]
          /\ UNCHANGED shadow_result
       \/ LET out == MODEL_PREDICTION_MAP("GRADIENT_BOOSTING",
                         ModelInput("GRADIENT_BOOSTING", json_data[r]))
              prediction_result == MakePredictionResult(out)
          IN  /\ shadow_result' = [shadow_result EXCEPT ![r] = prediction_result]
              /\ shadow' = [shadow EXCEPT ![r] =
                              IF ErrorsTruth(prediction_result.errors)
                                  THEN "returned_errors" ELSE "save"]
    /\ UNCHANGED <<environ, persistence_user_id,
                   pc, endpoint, json_data, result, response,
                   failure, db, prediction_metrics, request_metrics>>

\* shadow_save_predictions on a session shared with the worker thread: a
\* commit that raises rolls the primary row back too.
shadow_save_predictions_shared_session(r) ==
    /\ shadow[r] = "save"
    /\ \E committed \in BOOLEAN :
        /\ session_adds' = [session_adds EXCEPT ![r]["GRADIENT_BOOSTING"] = @ + 1]
        /\ session_commits' =
              [session_commits EXCEPT ![r]["GRADIENT_BOOSTING"] = @ + 1]
        /\ gb_table' =
              IF committed
                  THEN gb_table (+) SetToBag({PredictionRow(r,
                           PersistenceUserId(persistence_user_id[r]), json_data[r],
                           shadow_result[r])})
                  ELSE gb_table
        /\ lasso_table' = IF committed THEN lasso_table ELSE EmptyBag
        /\ shadow' = [shadow EXCEPT ![r] =
                         IF committed THEN "saved" ELSE "commit_raised"]
    /\ UNCHANGED <<environ, persistence_user_id,
                   pc, endpoint, json_data, result, response,
                   failure, shadow_result, model_calls, model_input, prediction_metrics,
                   request_metrics>>

\* data_access.py lines 113-117 in the shadow thread: the commit succeeds
\* or raises; an exception ends the thread and nothing else.
shadow_save_predictions(r) ==
    /\ shadow[r] = "save"
    /\ \E committed \in BOOLEAN :
        /\ save_predictions(r, "GRADIENT_BOOSTING",
                            ModelInput("GRADIENT_BOOSTING", json_data[r]),
                            shadow_result[r], committed)
        /\ shadow' = [shadow EXCEPT ![r] =
                         IF SaveException(r, committed) = "none"
                             THEN "saved" ELSE "commit_raised"]
    /\ UNCHANGED <<environ, persistence_user_id,
                   pc, endpoint, json_data, result, response,
                   failure, shadow_result, model_calls, model_input, prediction_metrics,
                   request_metrics>>

-----------------------------------------------------------------------------
(* predict_previous(): POST /v1/predictions/gradient, lines 171-202        *)

\* The keyword-only parameters of save_predictions (data_access.py 119-125)
\* and the keywords predict_previous passes (controller.py 192-197).
save_predictions_parameters == {"inputs", "prediction_result", "db_model"}
predict_previous_keywords == {"inputs", "model_version", "predictions", "db_model"}

\* predict_previous_make_prediction starting a shadow thread as predict does.
predict_previous_make_prediction_with_shadow(r) ==
    /\ pc[r] = "view"
    /\ endpoint[r] = "gradient"
    /\ model_calls' = [model_calls EXCEPT ![r] = @ \cup {"GRADIENT_BOOSTING"}]
    /\ model_input' = [model_input EXCEPT ![r]["GRADIENT_BOOSTING"] =
                          CalledWith(json_data[r])]
    /\ shadow' = [shadow EXCEPT ![r] = "started"]
    /\ LET out == ShadowModel(json_data[r])
       IN  /\ result' = [result EXCEPT ![r] =
                  [set |-> TRUE, errors |-> out.errors,
                   predictions |-> out.predictions,
                   model_version |-> out.version]]
           /\ IF ErrorsTruth(out.errors)
                 THEN /\ response' = [response EXCEPT ![r] = ErrorResponse(out.errors)]
                      /\ pc' = [pc EXCEPT ![r] = "after_request"]
                 ELSE /\ pc' = [pc EXCEPT ![r] = "previous_save"]
                      /\ UNCHANGED response
    /\ UNCHANGED <<environ, persistence_user_id,
                   endpoint, json_data, failure, shadow_result, db,
                   prediction_metrics, request_metrics>>

\* Lines 174-182: the gradient boosting model is called on json_data; with
\* errors the 400 response is returned.
predict_previous_make_prediction(r) ==
    /\ pc[r] = "view"
    /\ endpoint[r] = "gradient"
    /\ model_calls' = [model_calls EXCEPT ![r] = @ \cup {"GRADIENT_BOOSTING"}]
    /\ model_input' = [model_input EXCEPT ![r]["GRADIENT_BOOSTING"] =
                          CalledWith(json_data[r])]
    /\ \/ /\ Raise(r, "ModelInvocationError")
          /\ UNCHANGED result
       \/ LET out == ShadowModel(json_data[r])
              errors == IF out.errors.tag = "missing" THEN NoneErrors
                                                     ELSE out.errors
          IN  /\ result' = [result EXCEPT ![r] =
                     [set |-> TRUE, errors |-> errors,
                      predictions |-> out.predictions,
                      model_version |-> out.version]]
              /\ IF ErrorsTruth(errors)
                    THEN /\ response' = [response EXCEPT ![r] = ErrorResponse(errors)]
                         /\ pc' = [pc EXCEPT ![r] = "after_request"]
                    ELSE /\ pc' = [pc EXCEPT ![r] = "previous_save"]
                         /\ UNCHANGED response
              /\ UNCHANGED failure
    /\ UNCHANGED <<environ, persistence_user_id,
                   endpoint, json_data, shadow_thread, db,
                   prediction_metrics, request_metrics>>

\* Lines 190-202: save_predictions is called with keywords it does not
\* take, which raises TypeError before any row is built; were the keywords
\* its own, a row would be committed and the 200 response returned.
predict_previous_save_predictions(r) ==
    /\ pc[r] = "previous_save"
    /\ IF predict_previous_keywords = save_predictions_parameters
          THEN \E committed \in BOOLEAN :
                /\ save_predictions(r, "GRADIENT_BOOSTING", json_data[r],
                                    result[r], committed)
                /\ IF committed
                      THEN /\ response' = [response EXCEPT ![r] =
                                  PredictionResponse(result[r].predictions,
                                      result[r].model_version, result[r].errors)]
                           /\ pc' = [pc EXCEPT ![r] = "after_request"]
                           /\ UNCHANGED failure
                      ELSE Raise(r, "PersistenceError")
          ELSE /\ Raise(r, "TypeError")
               /\ UNCHANGED db
    /\ UNCHANGED <<environ, persistence_user_id,
                   endpoint, json_data, result, shadow_thread,
                   model_calls, model_input, prediction_metrics, request_metrics>>

-----------------------------------------------------------------------------
(* health(): GET /, lines 63-75                                            *)

\* health resetting the gauge of the live model.
health_sets_gauge(r) ==
    /\ pc[r] = "view"
    /\ endpoint[r] = "health"
    /\ response' = [response EXCEPT ![r] = HealthResponse]
    /\ pc' = [pc EXCEPT ![r] = "after_request"]
    /\ PREDICTION_GAUGE' = [PREDICTION_GAUGE EXCEPT !["LASSO"] = 0]
    /\ gauge_sets' = [gauge_sets EXCEPT ![r] = @ + 1]
    /\ UNCHANGED <<environ, persistence_user_id,
                   endpoint, json_data, result, failure,
                   shadow_thread, model_calls, model_input, db,
                   PREDICTION_TRACKER, observed, loop_index, request_metrics>>

health(r) ==
    /\ pc[r] = "view"
    /\ endpoint[r] = "health"
    /\ response' = [response EXCEPT ![r] = HealthResponse]
    /\ pc' = [pc EXCEPT ![r] = "after_request"]
    /\ UNCHANGED <<environ, persistence_user_id,
                   endpoint, json_data, result, failure,
                   shadow_thread, model_calls, model_input, db, prediction_metrics,
                   request_metrics>>

-----------------------------------------------------------------------------
(* middleware.py: the after_request hooks.  Flask runs them on the         *)
(* response of the view function and on the 500 response alike, and only   *)
(* then is the response sent to the client.                                *)

\* stop_timer observing only when the response has status 200.
stop_timer_success_only(latency, r) ==
    IF response[r].status = 200
        THEN [latency EXCEPT ![PathOf(endpoint[r])] = @ + 1]
        ELSE latency

\* stop_timer: one latency observation for request.path.
stop_timer(latency, r) ==
    [latency EXCEPT ![PathOf(endpoint[r])] = @ + 1]

\* record_request_data with the label http_status fixed to 200.
record_request_data_always_200(counter, r) ==
    [counter EXCEPT ![<< MethodOf(endpoint[r]), PathOf(endpoint[r]), 200 >>] = @ + 1]

\* record_request_data: one increment for method, path and status.
record_request_data(counter, r) ==
    [counter EXCEPT ![<< MethodOf(endpoint[r]), PathOf(endpoint[r]),
                         response[r].status >>] = @ + 1]

\* after_request ending the shadow thread of the request with the request.
after_request_cancels_shadow(r) ==
    /\ pc[r] = "after_request"
    /\ REQUEST_LATENCY' = stop_timer(REQUEST_LATENCY, r)
    /\ REQUEST_COUNT' = record_request_data(REQUEST_COUNT, r)
    /\ pc' = [pc EXCEPT ![r] = "done"]
    /\ shadow' = [shadow EXCEPT ![r] =
                     IF @ \in {"started", "save"} THEN "cancelled" ELSE @]
    /\ UNCHANGED <<environ, persistence_user_id,
                   endpoint, json_data, result, response, failure,
                   shadow_result, model_calls, model_input, db,
                   prediction_metrics>>

after_request(r) ==
    /\ pc[r] = "after_request"
    /\ REQUEST_LATENCY' = stop_timer(REQUEST_LATENCY, r)
    /\ REQUEST_COUNT' = record_request_data(REQUEST_COUNT, r)
    /\ pc' = [pc EXCEPT ![r] = "done"]
    /\ UNCHANGED <<environ, persistence_user_id,
                   endpoint, json_data, result, response, failure,
                   shadow_thread, model_calls, model_input, db, prediction_metrics>>

-----------------------------------------------------------------------------
(* A direct call of PredictionPersistence.make_save_predictions, as         *)
(* tests/test_persistence.py makes it, on a PredictionPersistence          *)
(* constructed with or without a user_id, and with the entry of            *)
(* MODEL_PREDICTION_MAP replaced by a stub that may answer any dict of the  *)
(* predict contract.  The call is made for request 1 outside any view       *)
(* function; its batch is any batch of at most MaxRows records.             *)

UnitFields == {"FirstFlrSF", "1stFlrSF", "LotArea"}

\* A record has one or two of the fields, each with a number.
UnitRecords ==
    UNION { [fs -> NumberCells] :
              fs \in { x \in SUBSET UnitFields : Cardinality(x) \in {1, 2} } }

UnitBatches ==
    UNION { [1..n -> UnitRecords] : n \in 0..MaxRows }

\* The "errors" entry of the stub's answer: no key, None, {} or a mapping.
StubErrors ==
    { MissingKey, NoneErrors, ErrorDict({}),
      ErrorDict({ << "0", "FirstFlrSF", "Not a valid number." >> }) }

\* The user_id PredictionPersistence is constructed with: none or an id.
UnitUserIds == { NoUser, "user-1" }

StubOutputs ==
    [ errors : StubErrors,
      predictions : { NonePredictions, PredictionList(<< 11, 12 >>) },
      version : { "stub-1" } ]

\* Lines 78-111 with the stub: None.tolist() raises AttributeError when the
\* stub answers no errors and no predictions.
unit_make_predictions(r) ==
    /\ r = 1
    /\ pc[r] = "idle"
    /\ \E uid \in UnitUserIds :
          persistence_user_id' = [persistence_user_id EXCEPT ![r] = uid]
    /\ \E db_model \in ModelType, batch \in UnitBatches, out \in StubOutputs :
        /\ json_data' = [json_data EXCEPT ![r] = batch]
        /\ model_calls' = [model_calls EXCEPT ![r] = {db_model}]
        /\ model_input' = [model_input EXCEPT ![r][db_model] =
                              CalledWith(ModelInput(db_model, batch))]
        /\ IF ~ErrorsTruth(out.errors) /\ out.predictions = NonePredictions
              THEN /\ failure' = [failure EXCEPT ![r] = "AttributeError"]
                   /\ pc' = [pc EXCEPT ![r] = "unit_raised"]
                   /\ UNCHANGED result
              ELSE LET prediction_result == MakePredictionResult(out)
                   IN  /\ result' = [result EXCEPT ![r] = prediction_result]
                       /\ pc' = [pc EXCEPT ![r] =
                                   IF ErrorsTruth(prediction_result.errors)
                                       THEN "unit_returned" ELSE "unit_save"]
                       /\ UNCHANGED failure
    /\ UNCHANGED <<environ, endpoint, response, shadow_thread, db,
                   prediction_metrics, request_metrics>>

\* Lines 113-117 of the direct call.
unit_save_predictions(r) ==
    /\ r = 1
    /\ pc[r] = "unit_save"
    /\ \E db_model \in model_calls[r], committed \in BOOLEAN :
        /\ save_predictions(r, db_model, ModelInput(db_model, json_data[r]),
                            result[r], committed)
        /\ pc' = [pc EXCEPT ![r] =
                     IF SaveException(r, committed) = "none"
                         THEN "unit_returned" ELSE "unit_raised"]
        /\ failure' = [failure EXCEPT ![r] = SaveException(r, committed)]
    /\ UNCHANGED <<environ, persistence_user_id,
                   endpoint, json_data, result, response,
                   shadow_thread, model_calls, model_input, prediction_metrics,
                   request_metrics>>

UnitNext ==
    \E r \in Req :
        \/ unit_make_predictions(r)
        \/ unit_save_predictions(r)

UnitSpec == Init /\ [][UnitNext]_vars

-----------------------------------------------------------------------------
Next ==
    \E r \in Req :
        \/ start_timer(r)
        \/ predict_make_predictions(r)
        \/ predict_save_predictions(r)
        \/ predict_shadow_mode(r)
        \/ predict_monitor(r)
        \/ predict_respond(r)
        \/ shadow_make_predictions(r)
        \/ shadow_save_predictions(r)
        \/ predict_previous_make_prediction(r)
        \/ predict_previous_save_predictions(r)
        \/ health(r)
        \/ after_request(r)

Spec == Init /\ [][Next]_vars

\* Every thread that can take a step eventually takes one: the operating
\* system schedules the worker threads and the shadow threads alike.
Fairness ==
    \A r \in Req :
        /\ WF_vars(predict_make_predictions(r))
        /\ WF_vars(predict_save_predictions(r))
        /\ WF_vars(predict_shadow_mode(r))
        /\ WF_vars(predict_monitor(r))
        /\ WF_vars(predict_respond(r))
        /\ WF_vars(shadow_make_predictions(r))
        /\ WF_vars(shadow_save_predictions(r))
        /\ WF_vars(after_request(r))

FairSpec == Spec /\ Fairness

-----------------------------------------------------------------------------
(* Vocabulary of the properties.                                           *)

IsRegression(r) == endpoint[r] = "regression"

\* The live model answered request r without errors / with errors.
LiveSucceeded(r) ==
    IsRegression(r) /\ result[r].set /\ ~ErrorsTruth(result[r].errors)
LiveFailed(r) ==
    IsRegression(r) /\ result[r].set /\ ErrorsTruth(result[r].errors)

\* The shadow thread of r runs and has not ended / has ended.
ShadowPending(r) == shadow[r] \in {"started", "save"}
ShadowFailed(r) == shadow[r] \in {"model_raised", "commit_raised"}

\* The view function of r has returned its response / the response is sent.
Returned(r) == pc[r] \in {"after_request", "done"}
Sent(r) == pc[r] = "done"

\* What the two models answer on the batch of r, computed from json_data.
LiveAnswer(r) == LiveModel(RenameRecords(json_data[r]))
ShadowAnswer(r) == ShadowModel(json_data[r])

\* The rows of a table written for r, without the request they name.
ContentFor(table, r) ==
    { [user_id |-> row.user_id, model_version |-> row.model_version,
       inputs |-> row.inputs, outputs |-> row.outputs] : row \in RowsFor(table, r) }

-----------------------------------------------------------------------------
\* C1: with shadow mode on, the response of predict() is returned without
\* joining the shadow thread: whenever the monitoring loop is over, returning
\* the response is enabled, and so are the after_request hooks that send it,
\* whatever the shadow thread is doing.
C1_ResponseDoesNotJoinShadow ==
    \A r \in Req :
        /\ (pc[r] = "monitor" /\ loop_index[r] = Len(result[r].predictions.items))
              => ENABLED predict_respond(r)
        /\ pc[r] = "after_request" => ENABLED after_request(r)

\* The response of r has been sent with 200 while the shadow thread has not
\* even called its model.
C1_Witness ==
    \E r \in Req :
        /\ ShadowModeOn /\ IsRegression(r) /\ Sent(r)
        /\ response[r].status = 200
        /\ shadow[r] = "started"

-----------------------------------------------------------------------------
\* The primary side of two requests is the same: response, primary rows and,
\* when the worker thread did not raise, the primary metrics made.
C2_PrimaryAlike(r1, r2) ==
    /\ response[r1] = response[r2]
    /\ ContentFor(lasso_table, r1) = ContentFor(lasso_table, r2)
    /\ CountFor(lasso_table, r1) = CountFor(lasso_table, r2)
    /\ failure[r1] = "none" =>
          /\ observed[r1] = observed[r2]
          /\ gauge_sets[r1] = gauge_sets[r2]

\* A step of a shadow thread (shadow changes, no worker thread moves) leaves
\* the responses, the primary table and all metrics as they are.
C2_ShadowStepFrame ==
    (shadow' # shadow /\ pc' = pc) =>
        UNCHANGED <<response, failure, result, lasso_table,
                    PREDICTION_TRACKER, PREDICTION_GAUGE, observed, gauge_sets,
                    REQUEST_COUNT, REQUEST_LATENCY>>

\* C2: a failure of the shadow thread (its model call raises, or its commit
\* raises) leaves the primary side of the request as it is when the shadow
\* thread succeeds.  Of two regression requests with the same batch and the
\* same fate of the worker thread, one whose shadow thread failed and one
\* whose shadow thread saved its row, the responses, the primary rows and
\* the primary metrics are equal, and the failed one has no secondary row;
\* and no step of a shadow thread changes a response, the primary table or
\* a primary metric.
C2_ShadowFailureContained ==
    /\ [](\A r1, r2 \in Req :
            ( /\ IsRegression(r1) /\ IsRegression(r2)
              /\ Sent(r1) /\ Sent(r2)
              /\ json_data[r1] = json_data[r2]
              /\ failure[r1] = failure[r2]
              /\ ShadowFailed(r1) /\ shadow[r2] = "saved" )
            => /\ C2_PrimaryAlike(r1, r2)
               /\ CountFor(gb_table, r1) = 0
               /\ CountFor(gb_table, r2) = 1)
    /\ [][C2_ShadowStepFrame]_vars

\* Two requests with the same batch were answered 200; the shadow commit of
\* one raised, the shadow thread of the other saved its row.
C2_Witness ==
    \E r1, r2 \in Req :
        /\ IsRegression(r1) /\ IsRegression(r2) /\ Sent(r1) /\ Sent(r2)
        /\ json_data[r1] = json_data[r2]
        /\ response[r1].status = 200 /\ response[r2].status = 200
        /\ shadow[r1] = "commit_raised" /\ shadow[r2] = "saved"

\* C3: when the commit of the primary row raises after an error-free live
\* prediction, the response is still 200 with the live predictions.
C3_PrimaryWriteFailureStill200 ==
    \A r \in Req :
        (LiveSucceeded(r) /\ failure[r] = "PersistenceError" /\ Returned(r))
            => /\ response[r].status = 200
               /\ response[r].predictions = result[r].predictions

\* C4: when the live model returns validation errors, no shadow thread is
\* started for the request, the shadow model is not invoked for it and no
\* secondary row is written for it.
C4_NoShadowAfterLiveErrors ==
    \A r \in Req :
        LiveFailed(r)
            => /\ shadow[r] = "none"
               /\ "GRADIENT_BOOSTING" \notin model_calls[r]
               /\ CountFor(gb_table, r) = 0

\* C5: when the live model returns validation errors, predict() answers 400
\* with the error mapping of the model as body, no primary row is added or
\* committed, and the request makes no histogram observation and no gauge
\* update.
C5_LiveErrorsAnswer400 ==
    \A r \in Req :
        LiveFailed(r)
            => /\ result[r].errors = LiveAnswer(r).errors
               /\ CountFor(lasso_table, r) = 0
               /\ session_adds[r]["LASSO"] = 0
               /\ session_commits[r]["LASSO"] = 0
               /\ observed[r] = 0
               /\ gauge_sets[r] = 0
               /\ Returned(r) => response[r] = ErrorResponse(LiveAnswer(r).errors)
               /\ ~Returned(r) => response[r] = NoResponse

\* A request whose batch the live model rejected has been answered.
C5_Witness ==
    \E r \in Req :
        /\ LiveFailed(r) /\ Sent(r)
        /\ response[r].status = 400
        /\ response[r].errors.messages # {}

\* C6: with shadow mode disabled (the configured value is false), no request
\* to the regression endpoint starts a shadow thread, invokes the gradient
\* boosting model or adds a secondary row, whether it succeeds or fails.
C6_ShadowModeOff ==
    ~PyTruth(SHADOW_MODE_ACTIVE(environ)) =>
        \A r \in Req :
            IsRegression(r)
                => /\ shadow[r] = "none"
                   /\ "GRADIENT_BOOSTING" \notin model_calls[r]
                   /\ session_adds[r]["GRADIENT_BOOSTING"] = 0
                   /\ CountFor(gb_table, r) = 0

\* Shadow mode is off; one regression request was answered 200 and another
\* one 400.
C6_Witness ==
    /\ ~PyTruth(SHADOW_MODE_ACTIVE(environ))
    /\ \E r1, r2 \in Req :
        /\ IsRegression(r1) /\ Sent(r1) /\ response[r1].status = 200
        /\ IsRegression(r2) /\ Sent(r2) /\ response[r2].status = 400

-----------------------------------------------------------------------------
\* make_save_predictions(db_model=LASSO) of request r is over: it returned
\* or it raised.
LiveCallOver(r) == IsRegression(r) /\ pc[r] \notin {"idle", "view", "save"}

\* C7, as claimed: every batch the live model accepts adds exactly one
\* primary row, with exactly one add and one commit, whatever the number of
\* its rows and of its predictions.
C7_OneRowPerAcceptedBatch ==
    \A r \in Req :
        (LiveSucceeded(r) /\ LiveCallOver(r))
            => /\ CountFor(lasso_table, r) = 1
               /\ session_adds[r]["LASSO"] = 1
               /\ session_commits[r]["LASSO"] = 1

\* C7, amended: for every batch the live model accepts, make_save_predictions
\* performs exactly one add and exactly one commit, whatever the number of
\* rows and of predictions; the batch adds exactly one primary row when that
\* commit succeeds and none when it raises.  A batch the live model does not
\* accept is neither added nor committed.
C7_OneRowPerCommittedBatch ==
    \A r \in Req :
        /\ (LiveSucceeded(r) /\ LiveCallOver(r))
              => /\ session_adds[r]["LASSO"] = 1
                 /\ session_commits[r]["LASSO"] = 1
                 /\ CountFor(lasso_table, r) =
                        IF failure[r] = "PersistenceError" THEN 0 ELSE 1
        /\ ~(LiveSucceeded(r) /\ LiveCallOver(r))
              => /\ session_adds[r]["LASSO"] = 0
                 /\ session_commits[r]["LASSO"] = 0
                 /\ CountFor(lasso_table, r) = 0

\* A batch of two rows with one prediction and a batch of two rows with two
\* predictions were accepted and committed: each has exactly one row.
C7_Witness ==
    \E r1, r2 \in Req :
        /\ LiveSucceeded(r1) /\ LiveCallOver(r1)
        /\ Len(json_data[r1]) = 2 /\ Len(result[r1].predictions.items) = 1
        /\ CountFor(lasso_table, r1) = 1
        /\ LiveSucceeded(r2) /\ LiveCallOver(r2)
        /\ Len(json_data[r2]) = 2 /\ Len(result[r2].predictions.items) = 2
        /\ CountFor(lasso_table, r2) = 1
        /\ Count(lasso_table) = 2

\* A batch that both models accept has been posted to the regression
\* endpoint with shadow mode on.
C8_Posted(r) ==
    /\ IsRegression(r) /\ pc[r] = "view"
    /\ PyTruth(SHADOW_MODE_ACTIVE(environ))
    /\ ~ErrorsTruth(LiveAnswer(r).errors)
    /\ ~ErrorsTruth(ShadowAnswer(r).errors)

\* A model call or a commit made for request r has raised.
C8_Raised(r) ==
    \/ failure[r] \in {"ModelInvocationError", "PersistenceError"}
    \/ ShadowFailed(r)

\* C8: a batch that both models accept, posted to the regression endpoint
\* with shadow mode on, eventually has exactly one secondary row (under fair
\* scheduling of the threads) unless a model call or a commit of the request
\* raises; and no request ever has more than one secondary row.
C8_ShadowRowEventually ==
    /\ \A r \in Req :
          C8_Posted(r) ~> (CountFor(gb_table, r) = 1 \/ C8_Raised(r))
    /\ [](\A r \in Req : CountFor(gb_table, r) <= 1)

\* The secondary row of an accepted batch is there, and nothing has raised.
C8_Witness ==
    \E r \in Req :
        /\ IsRegression(r) /\ Sent(r) /\ response[r].status = 200
        /\ ~ErrorsTruth(ShadowAnswer(r).errors)
        /\ ~C8_Raised(r)
        /\ shadow[r] = "saved"
        /\ CountFor(gb_table, r) = 1

\* C9, as claimed: when the view function returns the 200 response of a
\* regression request with shadow mode on, the secondary row of the request
\* does not exist yet.
C9_ResponseBeforeShadowRow ==
    [][\A r \in Req :
          ( /\ IsRegression(r) /\ PyTruth(SHADOW_MODE_ACTIVE(environ))
            /\ response[r].status = 0 /\ response'[r].status = 200 )
          => CountFor(gb_table, r) = 0]_vars

\* C9, amended: no order holds between the 200 response and the secondary
\* row: the response never waits for the row (it may be returned while the
\* shadow thread still runs), and the row may be committed before the
\* response is returned.  What is ordered is the start of the shadow thread:
\* a secondary row of a regression request exists only after the live
\* prediction was made and saved without errors or with them, that is once
\* the worker thread is past the start of the shadow thread.
C9_ShadowRowOnlyAfterThreadStart ==
    \A r \in Req :
        /\ (IsRegression(r) /\ CountFor(gb_table, r) > 0)
              => /\ result[r].set
                 /\ pc[r] \in {"monitor", "after_request", "done"}
                 /\ shadow[r] = "saved"
        /\ (IsRegression(r) /\ pc[r] = "monitor"
                /\ loop_index[r] = Len(result[r].predictions.items))
              => ENABLED predict_respond(r)

\* The 200 response was sent while the shadow model has answered and its
\* row is not committed yet.
C9_Witness ==
    \E r \in Req :
        /\ IsRegression(r) /\ Sent(r) /\ response[r].status = 200
        /\ shadow[r] = "save"
        /\ CountFor(gb_table, r) = 0

\* C10: when a regression request is answered 200, its primary row is
\* committed (one row, with the version and the predictions of the live
\* model) and one histogram observation and one gauge update were made for
\* every prediction, all before the view function returns the response.
C10_PrimarySideEffectsBeforeResponse ==
    \A r \in Req :
        (IsRegression(r) /\ response[r].status = 200)
            => /\ CountFor(lasso_table, r) = 1
               /\ \A row \in RowsFor(lasso_table, r) :
                     /\ row.model_version = LiveAnswer(r).version
                     /\ row.outputs = json_dumps(LiveAnswer(r).predictions)
               /\ session_commits[r]["LASSO"] = 1
               /\ observed[r] = Len(LiveAnswer(r).predictions.items)
               /\ gauge_sets[r] = Len(LiveAnswer(r).predictions.items)

\* The view function has just returned 200 for a batch with two predictions.
C10_Witness ==
    \E r \in Req :
        /\ IsRegression(r) /\ pc[r] = "after_request"
        /\ response[r].status = 200
        /\ Len(response[r].predictions.items) = 2
        /\ observed[r] = 2

-----------------------------------------------------------------------------
\* C11: every PredictionResult that make_save_predictions builds has errors
\* not None if and only if it has predictions None, whatever the model put
\* in its "errors" entry (no key, None, an empty mapping, a mapping).
C11_ErrorsIffNoPredictions ==
    \A r \in Req :
        result[r].set
            => (result[r].errors # NoneErrors
                    <=> result[r].predictions = NonePredictions)

-----------------------------------------------------------------------------
\* C12: every response the regression endpoint returns is exactly one of
\* two: 200 with the predictions and the version of the live model and
\* errors null, or 400 with the errors of the live model.
C12_SuccessOrValidationError ==
    \A r \in Req :
        (IsRegression(r) /\ Returned(r))
            => LET ok == /\ response[r].status = 200
                         /\ response[r].predictions = LiveAnswer(r).predictions
                         /\ response[r].predictions # NonePredictions
                         /\ response[r].version = LiveAnswer(r).version
                         /\ response[r].errors = NoneErrors
                   bad == /\ response[r].status = 400
                          /\ response[r].errors = LiveAnswer(r).errors
                          /\ ErrorsTruth(response[r].errors)
               IN  (ok \/ bad) /\ ~(ok /\ bad)

\* C13: for every batch the gradient boosting model accepts, the gradient
\* endpoint answers 200 with the predictions, the version and errors null,
\* and exactly one secondary row is written for the request.
C13_GradientEndpointSaves ==
    \A r \in Req :
        ( /\ endpoint[r] = "gradient" /\ Returned(r)
          /\ failure[r] # "ModelInvocationError"
          /\ ~ErrorsTruth(ShadowAnswer(r).errors) )
            => /\ response[r].status = 200
               /\ response[r].predictions = ShadowAnswer(r).predictions
               /\ response[r].version = ShadowAnswer(r).version
               /\ response[r].errors = NoneErrors
               /\ CountFor(gb_table, r) = 1

\* C14: when the model an endpoint invokes answers with validation errors E,
\* the response has status 400 and E as its body, entry for entry, and no
\* row is added, committed or stored for that model: the live model and the
\* primary table for the regression endpoint, the gradient boosting model
\* and the secondary table for the gradient endpoint.
C14_ValidationErrorsAnswered ==
    \A r \in Req :
        /\ (IsRegression(r) /\ result[r].set
                /\ ErrorsTruth(LiveAnswer(r).errors))
              => /\ Returned(r) =>
                      /\ response[r].status = 400
                      /\ response[r].kind = "errors"
                      /\ response[r].errors = LiveAnswer(r).errors
                      /\ response[r].predictions = NonePredictions
                 /\ session_adds[r]["LASSO"] = 0
                 /\ CountFor(lasso_table, r) = 0
        /\ (endpoint[r] = "gradient" /\ result[r].set
                /\ ErrorsTruth(ShadowAnswer(r).errors))
              => /\ Returned(r)
                 /\ response[r].status = 400
                 /\ response[r].kind = "errors"
                 /\ response[r].errors = ShadowAnswer(r).errors
                 /\ response[r].predictions = NonePredictions
                 /\ session_adds[r]["GRADIENT_BOOSTING"] = 0
                 /\ CountFor(gb_table, r) = 0

\* Both endpoints have answered a batch whose first record is no number.
C14_Witness ==
    \E r1, r2 \in Req :
        /\ IsRegression(r1) /\ Sent(r1) /\ response[r1].status = 400
        /\ << "0", "1stFlrSF", "Not a valid number." >>
              \in response[r1].errors.messages
        /\ endpoint[r2] = "gradient" /\ Sent(r2) /\ response[r2].status = 400
        /\ << "0", "FirstFlrSF", "Not a valid number." >>
              \in response[r2].errors.messages

-----------------------------------------------------------------------------
\* C15: the inputs of every stored row are the batch as the caller
\* submitted it, with the field names the caller used.
C15_InputsAsSubmitted ==
    \A row \in BagToSet(lasso_table) \cup BagToSet(gb_table) :
        row.inputs = json_dumps(json_data[row.req])

\* The columns of a batch, and whether a column shares its new name with
\* another column of the batch.
ColumnsOf(batch) == UNION { DOMAIN batch[i] : i \in DOMAIN batch }
Collides(batch, f) ==
    \E g \in ColumnsOf(batch) : g # f /\ RenameColumn(g) = RenameColumn(f)

\* C16: for every regression request the live model is called on the batch
\* with the rename table applied to the field names of every record (no
\* name of the table's left side is left, every value is under its new
\* name), the shadow model is called on the batch exactly as submitted, and
\* no step of either thread changes the submitted batch.
C16_ShadowReadsSubmittedBatch ==
    /\ [](\A r \in Req :
            IsRegression(r) =>
                LET b == json_data[r]
                    live == model_input[r]["LASSO"].input_data
                IN  /\ model_input[r]["LASSO"].called =>
                          /\ Len(live) = Len(b)
                          /\ \A i \in DOMAIN b :
                                /\ DOMAIN live[i]
                                      \cap DOMAIN SECONDARY_VARIABLES_TO_RENAME = {}
                                /\ \A f \in DOMAIN b[i] :
                                      /\ RenameColumn(f) \in DOMAIN live[i]
                                      /\ ~Collides(b, f) =>
                                            live[i][RenameColumn(f)] = b[i][f]
                    /\ model_input[r]["GRADIENT_BOOSTING"].called =>
                          model_input[r]["GRADIENT_BOOSTING"].input_data = b)
    /\ [][\A r \in Req : pc[r] # "idle" => json_data'[r] = json_data[r]]_vars

\* Both models were called for a batch of two records with FirstFlrSF: the
\* live model on the renamed batch, the shadow model after the live model's
\* row was saved.
C16_Witness ==
    \E r \in Req :
        /\ IsRegression(r) /\ Len(json_data[r]) = 2
        /\ \A i \in DOMAIN json_data[r] : "FirstFlrSF" \in DOMAIN json_data[r][i]
        /\ model_input[r]["LASSO"].called
        /\ model_input[r]["LASSO"].input_data # json_data[r]
        /\ CountFor(lasso_table, r) = 1
        /\ model_input[r]["GRADIENT_BOOSTING"].called
        /\ shadow[r] = "saved"

\* The batch uses none of the names the rename table renames.
UsesTargetNames(batch) ==
    ColumnsOf(batch) \cap DOMAIN SECONDARY_VARIABLES_TO_RENAME = {}

-----------------------------------------------------------------------------
\* The regression requests that were answered 200 and sent.
Succeeded == { r \in Req : IsRegression(r) /\ Sent(r) /\ response[r].status = 200 }

\* The histogram observations made by the requests of a set, and the
\* predictions the live model returned for them.
RECURSIVE SumObserved(_)
SumObserved(rs) ==
    IF rs = {} THEN 0
    ELSE LET r == CHOOSE x \in rs : TRUE
         IN  observed[r] + SumObserved(rs \ {r})

RECURSIVE SumPredictions(_)
SumPredictions(rs) ==
    IF rs = {} THEN 0
    ELSE LET r == CHOOSE x \in rs : TRUE
         IN  Len(LiveAnswer(r).predictions.items) + SumPredictions(rs \ {r})

\* C18: after N regression requests were answered 200, the request counter
\* labelled POST, /v1/predictions/regression, 200 stands at N, each of the N
\* requests has made one histogram observation per prediction, and the
\* LASSO histogram has exactly the observations the requests made: when no
\* other request has observed, that is the sum of the k of the N requests
\* (N*k for equal k).  The requests run concurrently.
C18_CounterAndHistogramTotals ==
    /\ REQUEST_COUNT[<< "POST", PathOf("regression"), 200 >>]
          = Cardinality(Succeeded)
    /\ \A r \in Succeeded : observed[r] = Len(LiveAnswer(r).predictions.items)
    /\ PREDICTION_TRACKER["LASSO"] = SumObserved(Req)
    /\ (\A r \in Req \ Succeeded : observed[r] = 0)
          => PREDICTION_TRACKER["LASSO"] = SumPredictions(Succeeded)

\* Two regression requests, one with two predictions and one with one, were
\* answered 200 and sent: the counter stands at 2, the histogram at 3.
C18_Witness ==
    /\ Cardinality(Succeeded) = 2
    /\ \E r1, r2 \in Succeeded :
          /\ Len(response[r1].predictions.items) = 2
          /\ Len(response[r2].predictions.items) = 1
    /\ REQUEST_COUNT[<< "POST", PathOf("regression"), 200 >>] = 2
    /\ PREDICTION_TRACKER["LASSO"] = 3

\* The requests whose shadow thread has made and saved its prediction.
ShadowCompleted == { r \in Req : shadow[r] = "saved" }

RECURSIVE SumShadowPredictions(_)
SumShadowPredictions(rs) ==
    IF rs = {} THEN 0
    ELSE LET r == CHOOSE x \in rs : TRUE
         IN  Len(shadow_result[r].predictions.items)
                 + SumShadowPredictions(rs \ {r})

\* C19: every completed shadow prediction has made one histogram
\* observation per prediction under the GRADIENT_BOOSTING labels, and the
\* gauge of those labels holds a shadow prediction once one was made.
C19_ShadowMetricsEmitted ==
    /\ PREDICTION_TRACKER["GRADIENT_BOOSTING"]
          = SumShadowPredictions(ShadowCompleted)
    /\ SumShadowPredictions(ShadowCompleted) > 0
          => \E r \in ShadowCompleted :
                \E k \in DOMAIN shadow_result[r].predictions.items :
                    PREDICTION_GAUGE["GRADIENT_BOOSTING"]
                        = shadow_result[r].predictions.items[k]

\* The labels record_request_data reads for request r.
LabelsOf(r) == << MethodOf(endpoint[r]), PathOf(endpoint[r]), response[r].status >>

\* C20: every request that was handled has incremented the request counter
\* exactly once, under its method, its path and the status of its response,
\* and has made exactly one latency observation under its path, whether the
\* response is 200 or 400 and whether or not the request made a model
\* metric; a request not yet sent has done neither.
C20_RequestMetricsOncePerCall ==
    /\ \A l \in CountLabels :
          l[3] \in {200, 400}
              => REQUEST_COUNT[l]
                    = Cardinality({ r \in Req : Sent(r) /\ LabelsOf(r) = l })
    /\ \A ep \in Endpoints :
          REQUEST_LATENCY[PathOf(ep)]
              = Cardinality({ r \in Req : Sent(r) /\ endpoint[r] = ep })

\* A regression request answered 400 without any model metric and one
\* answered 200 with two observations were sent.
C20_Witness ==
    \E r1, r2 \in Req :
        /\ IsRegression(r1) /\ Sent(r1) /\ response[r1].status = 400
        /\ observed[r1] = 0
        /\ IsRegression(r2) /\ Sent(r2) /\ response[r2].status = 200
        /\ observed[r2] = 2
        /\ REQUEST_COUNT[<< "POST", PathOf("regression"), 400 >>] = 1
        /\ REQUEST_COUNT[<< "POST", PathOf("regression"), 200 >>] = 1
        /\ REQUEST_LATENCY[PathOf("regression")] = 2

-----------------------------------------------------------------------------
\* C21: when a metric call raises during a request whose live prediction
\* succeeded, the exception is swallowed and the response is 200 with the
\* predictions.
C21_MetricsFailureSwallowed ==
    \A r \in Req :
        (LiveSucceeded(r) /\ failure[r] = "MetricsSinkError" /\ Returned(r))
            => /\ response[r].status = 200
               /\ response[r].predictions = result[r].predictions

\* The states in which a shadow thread has ended.
ShadowTerminal == {"saved", "commit_raised", "model_raised", "returned_errors"}

\* C22: a shadow thread that was started is never cancelled by the worker
\* thread: only its own steps move it, whatever the worker thread does, and
\* under fair scheduling it ends with its row written (saved) or with an
\* error (the model raised or returned errors, the commit raised).
C22_ShadowNeverCancelled ==
    /\ \A r \in Req : (shadow[r] = "started") ~> (shadow[r] \in ShadowTerminal)
    /\ [][\A r \in Req :
            (shadow[r] # "none" /\ shadow'[r] # shadow[r])
                => /\ pc' = pc
                   /\ ShadowPending(r)
                   /\ shadow'[r] \in {"save"} \cup ShadowTerminal]_vars

\* The worker thread of one request raised in the monitoring loop and the
\* one of another answered 400; both were sent, and both shadow threads have
\* run to their end.
C22_Witness ==
    \E r1, r2 \in Req :
        /\ failure[r1] = "MetricsSinkError" /\ Sent(r1) /\ shadow[r1] = "saved"
        /\ response[r2].status = 400 /\ Sent(r2) /\ shadow[r2] \in ShadowTerminal

\* C23: in both tables rows are only ever added: no step lowers the number
\* of rows of a table or the number of copies of a row that is in it, so a
\* row that was written stays as it was written, whatever a later request,
\* shadow thread or failure does.
C23_RecordsOnlyAdded ==
    [][ /\ \A row \in BagToSet(lasso_table) :
              CopiesIn(row, lasso_table') >= CopiesIn(row, lasso_table)
        /\ \A row \in BagToSet(gb_table) :
              CopiesIn(row, gb_table') >= CopiesIn(row, gb_table)
        /\ Count(lasso_table') >= Count(lasso_table)
        /\ Count(gb_table') >= Count(gb_table) ]_vars

\* Two primary rows and one secondary row are stored after the commit of a
\* shadow thread has raised.
C23_Witness ==
    /\ Count(lasso_table) = 2
    /\ Count(gb_table) = 1
    /\ \E r \in Req : shadow[r] = "commit_raised"

\* C24: an outcome is stored in the table of the model that produced it:
\* every row of the primary table holds the version and the predictions of
\* the live model, every row of the secondary table those of the gradient
\* boosting model, and a table holds no more rows of a request than commits
\* were made for its model on behalf of the request.
C24_RowInTableOfItsModel ==
    /\ \A row \in BagToSet(lasso_table) :
          /\ row.model_version = live_version
          /\ row.outputs = json_dumps(LiveAnswer(row.req).predictions)
    /\ \A row \in BagToSet(gb_table) :
          /\ row.model_version = shadow_version
          /\ row.outputs = json_dumps(ShadowAnswer(row.req).predictions)
    /\ \A r \in Req :
          /\ CountFor(lasso_table, r) <= session_commits[r]["LASSO"]
          /\ CountFor(gb_table, r) <= session_commits[r]["GRADIENT_BOOSTING"]

\* A request has one row in each table, with different predictions.
C24_Witness ==
    \E r \in Req :
        /\ CountFor(lasso_table, r) = 1 /\ CountFor(gb_table, r) = 1
        /\ Len(result[r].predictions.items) = 2
        /\ \A p \in RowsFor(lasso_table, r), g \in RowsFor(gb_table, r) :
              p.outputs # g.outputs /\ p.model_version # g.model_version

\* The regression requests whose batch both models accept and whose worker
\* thread and shadow thread have finished without a model call or a commit
\* that raised.
FinishedClean ==
    { r \in Req :
        /\ IsRegression(r) /\ Sent(r)
        /\ ~ErrorsTruth(LiveAnswer(r).errors)
        /\ ~ErrorsTruth(ShadowAnswer(r).errors)
        /\ failure[r] \notin {"ModelInvocationError", "PersistenceError"}
        /\ shadow[r] \notin {"started", "save", "model_raised", "commit_raised"} }

\* C25: with shadow mode on, every request handled concurrently with the
\* others whose batch both models accept and whose writes did not fail has,
\* once its two threads have finished, exactly one primary and one secondary
\* row, each with the inputs and predictions of that request; when all N
\* requests are such, the tables hold exactly N rows each.
C25_ConcurrentWritesAllKept ==
    PyTruth(SHADOW_MODE_ACTIVE(environ)) =>
        /\ \A r \in FinishedClean :
              /\ CountFor(lasso_table, r) = 1
              /\ CountFor(gb_table, r) = 1
              /\ \A row \in RowsFor(lasso_table, r) :
                    row.outputs = json_dumps(LiveAnswer(r).predictions)
              /\ \A row \in RowsFor(gb_table, r) :
                    /\ row.inputs = json_dumps(json_data[r])
                    /\ row.outputs = json_dumps(ShadowAnswer(r).predictions)
        /\ FinishedClean = Req
              => /\ Count(lasso_table) = NumReq
                 /\ Count(gb_table) = NumReq

\* All requests were regression requests with different batches and have
\* finished with their rows written.
C25_Witness ==
    /\ FinishedClean = Req
    /\ \A r1, r2 \in Req : r1 # r2 => json_data[r1] # json_data[r2]
    /\ Count(lasso_table) = NumReq
    /\ Count(gb_table) = NumReq

-----------------------------------------------------------------------------
\* C26: an empty batch posted to the regression endpoint is no error: the
\* live model answers no predictions and no errors, the PredictionResult
\* has predictions [] and errors None, the request makes no histogram
\* observation and no gauge update, and the response the view function
\* returns is 200 with predictions [] and errors null.
C26_EmptyBatchAnswered ==
    \A r \in Req :
        (IsRegression(r) /\ json_data[r] = << >>)
            => /\ observed[r] = 0
               /\ gauge_sets[r] = 0
               /\ result[r].set =>
                     /\ result[r].errors = NoneErrors
                     /\ result[r].predictions = PredictionList(<< >>)
               /\ (Returned(r) /\ failure[r] = "none") =>
                     /\ response[r].status = 200
                     /\ response[r].kind = "prediction"
                     /\ response[r].predictions = PredictionList(<< >>)
                     /\ response[r].errors = NoneErrors

\* The response to an empty batch was sent.
C26_Witness ==
    \E r \in Req :
        /\ IsRegression(r) /\ json_data[r] = << >> /\ Sent(r)
        /\ response[r].status = 200
        /\ response[r].predictions = PredictionList(<< >>)
        /\ PREDICTION_TRACKER["LASSO"] = 0

\* C27: a request to the gradient endpoint starts no shadow thread, never
\* calls the live model, adds nothing to the primary table and makes no
\* histogram observation and no gauge update; the only model it calls is the
\* gradient boosting model.
C27_GradientEndpointAlone ==
    \A r \in Req :
        endpoint[r] = "gradient"
            => /\ shadow[r] = "none"
               /\ ~shadow_result[r].set
               /\ model_calls[r] \subseteq {"GRADIENT_BOOSTING"}
               /\ ~model_input[r]["LASSO"].called
               /\ session_adds[r]["LASSO"] = 0
               /\ session_commits[r]["LASSO"] = 0
               /\ CountFor(lasso_table, r) = 0
               /\ observed[r] = 0
               /\ gauge_sets[r] = 0

\* Gradient requests were handled, one answered 400 and one past its model
\* call with an accepted batch; the tables and the metrics are untouched.
C27_Witness ==
    \E r1, r2 \in Req :
        /\ endpoint[r1] = "gradient" /\ Sent(r1) /\ response[r1].status = 400
        /\ endpoint[r2] = "gradient" /\ Sent(r2)
        /\ Len(result[r2].predictions.items) = 2
        /\ "GRADIENT_BOOSTING" \in model_calls[r2]
        /\ Count(lasso_table) = 0
        /\ PREDICTION_TRACKER["LASSO"] = 0

\* C28: GET / can be answered in every state in which it waits, its answer
\* is always 200 with the body {"status": "ok"}, and the request calls no
\* model, adds and stores no row in either table, starts no shadow thread
\* and makes no histogram observation and no gauge update.
C28_HealthInvolvesNoModel ==
    \A r \in Req :
        endpoint[r] = "health"
            => /\ pc[r] = "view" => ENABLED health(r)
               /\ Returned(r) =>
                     /\ response[r].status = 200
                     /\ response[r].kind = "health"
                     /\ failure[r] = "none"
               /\ model_calls[r] = {}
               /\ \A m \in ModelType :
                     /\ ~model_input[r][m].called
                     /\ session_adds[r][m] = 0
                     /\ session_commits[r][m] = 0
               /\ CountFor(lasso_table, r) = 0
               /\ CountFor(gb_table, r) = 0
               /\ shadow[r] = "none"
               /\ observed[r] = 0
               /\ gauge_sets[r] = 0

\* GET / was answered while a regression request with a running shadow
\* thread and a row in the primary table was under way.
C28_Witness ==
    \E r1, r2 \in Req :
        /\ endpoint[r1] = "health" /\ Sent(r1) /\ response[r1].status = 200
        /\ IsRegression(r2) /\ ShadowPending(r2)
        /\ CountFor(lasso_table, r2) = 1

\* C29: when the live prediction of a request succeeded and the gradient
\* boosting model rejects the submitted batch, the shadow thread adds and
\* stores no secondary row for the request, and the primary side is what
\* the live model alone determines: the 200 response with the live
\* predictions, one primary row, one observation and one gauge update per
\* live prediction.
C29_ShadowErrorsNotSaved ==
    \A r \in Req :
        (LiveSucceeded(r) /\ ErrorsTruth(ShadowAnswer(r).errors))
            => /\ session_adds[r]["GRADIENT_BOOSTING"] = 0
               /\ CountFor(gb_table, r) = 0
               /\ shadow[r] \in {"none", "started", "model_raised", "returned_errors"}
               /\ (Sent(r) /\ failure[r] = "none") =>
                     /\ response[r].status = 200
                     /\ response[r].predictions = LiveAnswer(r).predictions
                     /\ CountFor(lasso_table, r) = 1
                     /\ observed[r] = Len(LiveAnswer(r).predictions.items)
                     /\ gauge_sets[r] = Len(LiveAnswer(r).predictions.items)

\* The gradient boosting model has returned errors in the shadow thread of a
\* request that was answered 200 with a prediction.
C29_Witness ==
    \E r \in Req :
        /\ LiveSucceeded(r) /\ Sent(r) /\ response[r].status = 200
        /\ shadow[r] = "returned_errors"
        /\ ErrorsTruth(shadow_result[r].errors)
        /\ CountFor(lasso_table, r) = 1
        /\ observed[r] = 1

\* C30: when the commit of the primary row raises, the request still makes
\* one histogram observation and one gauge update per prediction and, with
\* shadow mode on, still starts the shadow thread.
C30_SideEffectsDespiteWriteFailure ==
    \A r \in Req :
        (IsRegression(r) /\ failure[r] = "PersistenceError" /\ Sent(r))
            => /\ observed[r] = Len(result[r].predictions.items)
               /\ gauge_sets[r] = Len(result[r].predictions.items)
               /\ PyTruth(SHADOW_MODE_ACTIVE(environ)) => shadow[r] # "none"

-----------------------------------------------------------------------------
\* The commit attempted by thread m of request r in this step raised and the
\* exception reached the caller of make_save_predictions: predict(), which
\* ends with a 500, or the shadow thread, which ends.
CommitFailureReported(r, m) ==
    IF m = "LASSO"
        THEN /\ failure'[r] = "PersistenceError"
             /\ response'[r] = ServerErrorResponse
             /\ pc'[r] = "after_request"
        ELSE shadow'[r] = "commit_raised"

\* C31: save_predictions is all-or-nothing and reports failure: a step
\* that calls commit either adds exactly one row to the table of its model
\* and reports nothing, or reports the failure to the caller of
\* make_save_predictions and leaves both tables as they were; a request
\* whose primary commit raised has no primary row, and a shadow thread
\* whose commit raised leaves no secondary row.
C31_CommitAllOrNothing ==
    /\ [](\A r \in Req :
            /\ failure[r] = "PersistenceError"
                  => CountFor(lasso_table, r) = 0 /\ CountFor(gb_table, r) = 0
            /\ shadow[r] = "commit_raised" => CountFor(gb_table, r) = 0)
    /\ [][\A r \in Req, m \in ModelType :
            session_commits'[r][m] = session_commits[r][m] + 1
                => IF CommitFailureReported(r, m)
                       THEN /\ lasso_table' = lasso_table
                            /\ gb_table' = gb_table
                       ELSE /\ Count(lasso_table') + Count(gb_table')
                                 = Count(lasso_table) + Count(gb_table) + 1
                            /\ CountFor(IF m = "LASSO" THEN lasso_table'
                                                       ELSE gb_table', r)
                                 = CountFor(IF m = "LASSO" THEN lasso_table
                                                          ELSE gb_table, r) + 1
                            /\ failure'[r] = failure[r]
                            /\ shadow'[r] # "commit_raised"]_vars

\* The primary commit of one request and the shadow commit of another have
\* raised: the first was answered 500 and has no row, the second has its
\* primary row and no secondary row.
C31_Witness ==
    \E r1, r2 \in Req :
        /\ failure[r1] = "PersistenceError" /\ Sent(r1)
        /\ response[r1].status = 500
        /\ session_commits[r1]["LASSO"] = 1
        /\ CountFor(lasso_table, r1) = 0
        /\ shadow[r2] = "commit_raised"
        /\ session_commits[r2]["GRADIENT_BOOSTING"] = 1
        /\ CountFor(lasso_table, r2) = 1
        /\ CountFor(gb_table, r2) = 0

-----------------------------------------------------------------------------
\* The direct call of make_save_predictions for r reached save_predictions
\* and is over.
UnitSaveCalled(r) ==
    /\ pc[r] \in {"unit_returned", "unit_raised"}
    /\ result[r].set
    /\ ~ErrorsTruth(result[r].errors)

\* C32: with or without a user_id passed to PredictionPersistence,
\* save_predictions succeeds in setting the user_id of the row: it never
\* ends with an AttributeError, and a row it committed has a non-empty
\* user_id, the one passed or "007" when none was passed.
C32_RowHasRequesterId ==
    \A r \in Req :
        UnitSaveCalled(r)
            => /\ failure[r] # "AttributeError"
               /\ failure[r] = "none" =>
                     /\ CountFor(lasso_table, r) + CountFor(gb_table, r) = 1
                     /\ \A row \in RowsFor(lasso_table, r) \cup RowsFor(gb_table, r) :
                           /\ row.user_id # ""
                           /\ row.user_id =
                                 IF persistence_user_id[r] = NoUser
                                     THEN "007" ELSE persistence_user_id[r]

-----------------------------------------------------------------------------
\* The value request r wrote to the gauge last: the prediction of its
\* latest gauge update.
LastGaugeWrite(r) == result[r].predictions.items[gauge_sets[r]]

\* The requests that have updated the gauge.
GaugeWriters == { r \in Req : gauge_sets[r] >= 1 }

\* C33: the gauge of the LASSO labels holds the value written to it last.
\* Every gauge update writes the prediction the loop of a successful
\* regression request stands at, so that after the last pass of a loop the
\* gauge is the last prediction of that request; no other step changes the
\* gauge, and requests with errors, with no predictions or to the other
\* endpoints never update it.  In every state the gauge is its initial
\* value, with no update made yet, or the value some request wrote last;
\* with one writer whose loop is over it is that request's last prediction.
C33_GaugeHoldsLastWritten ==
    /\ [](/\ PREDICTION_GAUGE["GRADIENT_BOOSTING"] = 0
          /\ IF GaugeWriters = {}
                 THEN PREDICTION_GAUGE["LASSO"] = 0
                 ELSE \E r \in GaugeWriters :
                         PREDICTION_GAUGE["LASSO"] = LastGaugeWrite(r)
          /\ \A r \in Req :
                /\ gauge_sets[r] >= 1 =>
                      /\ LiveSucceeded(r)
                      /\ gauge_sets[r] <= Len(result[r].predictions.items)
                /\ (/\ GaugeWriters = {r}
                    /\ Returned(r) /\ failure[r] = "none")
                      => PREDICTION_GAUGE["LASSO"] =
                            result[r].predictions.items[
                                Len(result[r].predictions.items)]
                /\ (~IsRegression(r) \/ LiveFailed(r)
                      \/ (LiveSucceeded(r) /\ result[r].predictions.items = << >>))
                      => gauge_sets[r] = 0)
    /\ [][/\ PREDICTION_GAUGE' # PREDICTION_GAUGE
                => \E r \in Req : gauge_sets'[r] = gauge_sets[r] + 1
          /\ \A r \in Req :
                gauge_sets'[r] # gauge_sets[r]
                    => /\ pc[r] = "monitor" /\ LiveSucceeded(r)
                       /\ gauge_sets'[r] = gauge_sets[r] + 1
                       /\ PREDICTION_GAUGE'["LASSO"] =
                             result[r].predictions.items[gauge_sets'[r]]
                       /\ \A q \in Req \ {r} : gauge_sets'[q] = gauge_sets[q]]_vars

\* Two requests have run their loops, the second after the first, and the
\* gauge holds the last prediction of the second, which differs from the
\* last prediction of the first.
C33_Witness ==
    \E r1, r2 \in Req :
        /\ Sent(r1) /\ Sent(r2)
        /\ gauge_sets[r1] = 2 /\ gauge_sets[r2] = 1
        /\ LastGaugeWrite(r1) = 12
        /\ LastGaugeWrite(r2) = 11
        /\ PREDICTION_GAUGE["LASSO"] = 11

-----------------------------------------------------------------------------
\* Strings the environment variable SHADOW_MODE_ACTIVE may be set to.
EnvStrings == {"", "False", "false", "0", "no", "True", "1"}

\* predict() of request r has passed `if SHADOW_MODE_ACTIVE` (line 108):
\* make_save_predictions returned.
DispatchPassed(r) ==
    /\ IsRegression(r)
    /\ \/ pc[r] = "monitor"
       \/ Returned(r) /\ failure[r] \in {"none", "MetricsSinkError"}

\* C34: predict() starts the shadow thread exactly when the configured
\* SHADOW_MODE_ACTIVE is true as a Python value.  The value is the string
\* of the environment, or True when the variable is not set: every
\* non-empty string, "False" and "0" included, is true and only the empty
\* string is false, so a request that has passed line 108 has a shadow
\* thread exactly when the variable is unset or non-empty.
C34_ShadowDispatchedIffTruthy ==
    /\ PyTruth(SHADOW_MODE_ACTIVE(Unset))
    /\ \A env \in EnvStrings :
          /\ SHADOW_MODE_ACTIVE(env).is_str
          /\ SHADOW_MODE_ACTIVE(env).str = env
          /\ PyTruth(SHADOW_MODE_ACTIVE(env)) <=> env # ""
    /\ \A r \in Req :
          /\ DispatchPassed(r) =>
                /\ shadow[r] # "none" <=> PyTruth(SHADOW_MODE_ACTIVE(environ))
                /\ shadow[r] # "none" <=> environ # ""
          /\ (IsRegression(r) /\ ~DispatchPassed(r)) => shadow[r] = "none"

\* With SHADOW_MODE_ACTIVE=False in the environment a regression request was
\* answered and its shadow thread has stored a secondary row.
C34_Witness ==
    /\ environ = "False"
    /\ \E r \in Req :
          /\ IsRegression(r) /\ Sent(r) /\ response[r].status = 200
          /\ shadow[r] = "saved"
          /\ CountFor(gb_table, r) = 1

-----------------------------------------------------------------------------
\* C35: within a regression request the shadow thread exists only after
\* make_save_predictions of the live model has returned: while the live
\* model call or the primary write is still to be made there is no shadow
\* thread and no shadow model call, and once there is one the live model
\* has been called and, when it answered without errors, the primary row is
\* committed; a secondary row of a request whose live prediction succeeded
\* is never there without its primary row.
C35_ShadowAfterPrimaryWrite ==
    \A r \in Req :
        IsRegression(r)
            => /\ pc[r] \in {"view", "save", "shadow_mode"} =>
                     /\ shadow[r] = "none"
                     /\ "GRADIENT_BOOSTING" \notin model_calls[r]
               /\ (shadow[r] # "none" \/ "GRADIENT_BOOSTING" \in model_calls[r]) =>
                     /\ LiveCallOver(r)
                     /\ "LASSO" \in model_calls[r]
                     /\ result[r].set
                     /\ LiveSucceeded(r) =>
                           /\ session_commits[r]["LASSO"] = 1
                           /\ CountFor(lasso_table, r) = 1
               /\ (LiveSucceeded(r) /\ CountFor(gb_table, r) >= 1)
                     => CountFor(lasso_table, r) = 1

\* The shadow thread of a request with a committed primary row is about to
\* call its model, and another request has both of its rows.
C35_Witness ==
    \E r1, r2 \in Req :
        /\ LiveSucceeded(r1) /\ shadow[r1] = "started"
        /\ "GRADIENT_BOOSTING" \notin model_calls[r1]
        /\ CountFor(lasso_table, r1) = 1
        /\ LiveSucceeded(r2) /\ shadow[r2] = "saved"
        /\ CountFor(lasso_table, r2) = 1 /\ CountFor(gb_table, r2) = 1

-----------------------------------------------------------------------------
\* C36: a regression request answered 200 has exactly one primary row, and
\* the row agrees with the response: its model_version is the version of
\* the response and its outputs are json.dumps of the predictions of the
\* response, the same values in the same order, whatever other requests do
\* at the same time.
C36_RowAgreesWithResponse ==
    \A r \in Req :
        (IsRegression(r) /\ Returned(r) /\ response[r].status = 200)
            => /\ CountFor(lasso_table, r) = 1
               /\ \A row \in RowsFor(lasso_table, r) :
                     /\ row.model_version = response[r].version
                     /\ row.outputs = json_dumps(response[r].predictions)

\* Two regression requests with different predictions were both answered
\* 200 and each has its row.
C36_Witness ==
    \E r1, r2 \in Req :
        /\ IsRegression(r1) /\ Sent(r1) /\ response[r1].status = 200
        /\ IsRegression(r2) /\ Sent(r2) /\ response[r2].status = 200
        /\ response[r1].predictions.items = << 11, 12 >>
        /\ response[r2].predictions.items = << 12 >>
        /\ CountFor(lasso_table, r1) = 1
        /\ CountFor(lasso_table, r2) = 1

====
